---- MODULE Spec2Model ----
(***************************************************************************)
(* The continuous windowed rendering manager of epub.js                    *)
(* (src/src/managers/continuous/index.js) as a state machine.              *)
(*                                                                         *)
(* Lengths are integers counted in sub-pixel units: one pixel is Px units, *)
(* so that Math.floor is a real conversion (Floor) and not the identity.   *)
(***************************************************************************)
EXTENDS Integers, Sequences, FiniteSets, TLC

\* ------------------------------------------------------------------ bounds
NSections == 4          \* sections of the longest book a reader pages through
MaxPending == 2         \* the environment adds work only while fewer things are pending
MaxNav == 2             \* navigation calls made back to back
MaxBroken == 1          \* sections whose render always fails
MaxDestroy == 2         \* destroy() calls made on one manager
Px == 2                 \* sub-pixel units per pixel

VARIABLES
  spine,           \* the number of sections of the open book (its spine)
  settings,        \* this.settings: axis, direction, fullsize, rtlScrollType, offset
  writingMode,     \* this.writingMode, as check() classifies it
  layout,          \* this.layout: props.name, props.spread, props.delta, height
  isPaginated,     \* this.isPaginated
  broken,          \* sections whose view.display() rejects
  views,           \* this.views: the window, a sequence of views
  cTop, cLeft,     \* the scroll owner's raw position (container.scrollTop/Left or window.scrollY/X)
  scrollTop, scrollLeft,  \* this.scrollTop, this.scrollLeft (tracked by onScroll)
  ignore,          \* this.ignore
  sigPending,      \* a raw scroll signal is waiting to be handled by onScroll
  scrolledPending, \* the 30-unit debounce of scrolled() is armed
  afterScrolled,   \* this.afterScrolled timer is armed
  trimTimeout,     \* this.trimTimeout timer is armed
  q,               \* this.q: tasks waiting, in submission order
  run,             \* the task the queue is running
  inflight,        \* view.display() calls that have not settled
  fillActive,      \* a fill() whose promise has not resolved
  fillGrown,       \* history: growth passes made by the checks of the current fill()
  last,            \* history: the most recent operation and what it saw
  navHist,         \* history: the navigation calls made back to back
  probe,           \* inputs and result of a pure function under check
  rendered,        \* render() has run: this.container exists
  listening,       \* this._onScroll is registered on the scroll owner
  snapper,         \* this.snapper: "none", "live" or "destroyed" (still referenced)
  scrollTimeout,   \* this.scrollTimeout, the 150-unit delta-reset timer, is armed
  teardown,        \* history: destroy() calls made, returned, and snapper.destroy() calls
  wait,            \* where time is followed: what is left of the timers and the time since events
  ctor             \* the constructor: the options it is given and the settings it leaves

vars == << spine, settings, writingMode, layout, isPaginated, broken, views, cTop, cLeft,
           scrollTop, scrollLeft, ignore, sigPending, scrolledPending, afterScrolled,
           trimTimeout, q, run, inflight, fillActive, fillGrown, last, navHist, probe,
           rendered, listening, snapper, scrollTimeout, teardown, wait, ctor >>

\* what render() and destroy() set up and release
mount == << ctor, rendered, listening, snapper, teardown >>

\* ---------------------------------------------------------------- helpers
\* the sections of the book, numbered in reading order
Sections == 1 .. spine

Max(a, b) == IF a >= b THEN a ELSE b

Min(a, b) == IF a <= b THEN a ELSE b

\* Math.floor on a length given in sub-pixel units
Floor(x) == x - (x % Px)

\* Section.next() / Section.prev(): the adjacent section, 0 for none
SectionNext(s) == IF s < spine THEN s + 1 ELSE 0

SectionPrev(s) == IF s > 1 THEN s - 1 ELSE 0

\* the extent a section's view measures once rendered (1.5 px and 1 px alternate)
Ext(s) == Px + (s % 2)

\* the stage's visible length along either axis (this._bounds, this.bounds()): 1.5 px
StageLen == Px + 1

\* createView(section): a view that has rendered nothing yet
NewView(s, prepended) ==
  [sec |-> s, displayed |-> FALSE, shown |-> FALSE, sized |-> FALSE, pre |-> prepended]

\* view.bounds(): the measured extent along the scroll axis
Bounds(v) == IF v.sized THEN Ext(v.sec) ELSE 0

RECURSIVE SumBounds(_)
SumBounds(vs) == IF vs = << >> THEN 0 ELSE Bounds(Head(vs)) + SumBounds(Tail(vs))

Horizontal == settings.axis = "horizontal"

\* container.scrollWidth / scrollHeight: the length of the rendered content
ContentLength == SumBounds(views)

\* the raw position along the active axis
RawPos == IF Horizontal THEN cLeft ELSE cTop

SeqToSet(s) == { s[i] : i \in 1 .. Len(s) }

\* the positions of the views that satisfy a test
RECURSIVE SelectIdx(_, _)
SelectIdx(vs, i) ==
  IF i > Len(vs) THEN << >>
  ELSE IF vs[i].displayed THEN << i >> \o SelectIdx(vs, i + 1)
  ELSE SelectIdx(vs, i + 1)

\* ------------------------------------------------- scroll normalization
\* a faulty variant: the sign flip of the negative policy is left out when the
\* scroll owner is a container
NormalizeOffsetNoFlip(raw, fullsize, rtl, rtlScrollType, horizontal, wmode, contentLength, visibleLength) ==
  IF ~fullsize
  THEN IF rtl /\ rtlScrollType = "default" /\ wmode = "horizontal"
       THEN contentLength - visibleLength - raw
       ELSE raw
  ELSE IF (horizontal /\ rtl /\ rtlScrollType = "negative")
          \/ (~horizontal /\ rtl /\ rtlScrollType = "default")
       THEN raw * (-1)
       ELSE raw

\* a faulty variant: the default policy measures from the end of the content
\* without taking the visible length off
NormalizeOffsetFromEnd(raw, fullsize, rtl, rtlScrollType, horizontal, wmode, contentLength, visibleLength) ==
  IF ~fullsize
  THEN LET a == IF rtl /\ rtlScrollType = "default" /\ wmode = "horizontal"
                THEN contentLength - raw
                ELSE raw
       IN  IF rtl /\ rtlScrollType = "negative" /\ wmode = "horizontal"
           THEN a * (-1)
           ELSE a
  ELSE IF (horizontal /\ rtl /\ rtlScrollType = "negative")
          \/ (~horizontal /\ rtl /\ rtlScrollType = "default")
       THEN raw * (-1)
       ELSE raw

\* check(): the logical offset computed from the tracked raw offset
NormalizeOffset(raw, fullsize, rtl, rtlScrollType, horizontal, wmode, contentLength, visibleLength) ==
  IF ~fullsize
  THEN LET a == IF rtl /\ rtlScrollType = "default" /\ wmode = "horizontal"
                THEN contentLength - visibleLength - raw
                ELSE raw
       IN  IF rtl /\ rtlScrollType = "negative" /\ wmode = "horizontal"
           THEN a * (-1)
           ELSE a
  ELSE IF (horizontal /\ rtl /\ rtlScrollType = "negative")
          \/ (~horizontal /\ rtl /\ rtlScrollType = "default")
       THEN raw * (-1)
       ELSE raw

\* check(): visibleLength
VisibleLength == IF Horizontal THEN Floor(StageLen) ELSE StageLen

\* onScroll(), addScrollListeners(): dir
ScrollDir == IF settings.direction = "rtl" /\ settings.rtlScrollType = "default" THEN -1 ELSE 1

\* onScroll(): the value it stores for a raw coordinate
Tracked(raw) == IF ~settings.fullsize THEN raw ELSE raw * ScrollDir

\* check(): offset, from this.scrollLeft / this.scrollTop, over the window vs
CheckOffsetOf(vs) ==
  NormalizeOffset(IF Horizontal THEN scrollLeft ELSE scrollTop,
                  settings.fullsize, settings.direction = "rtl", settings.rtlScrollType,
                  Horizontal, writingMode, SumBounds(vs), VisibleLength)

\* the logical offset of the position (top, left) the scroll owner is at
LiveOffsetOf(vs, top, left) ==
  NormalizeOffset(Tracked(IF Horizontal THEN left ELSE top),
                  settings.fullsize, settings.direction = "rtl", settings.rtlScrollType,
                  Horizontal, writingMode, SumBounds(vs), VisibleLength)

LiveOffset == LiveOffsetOf(views, cTop, cLeft)

\* ------------------------------------------------------------- history
NoOp == [op |-> "-", pos |-> 0, cross |-> 0, n |-> 0, m |-> 0, ext |-> 0, fext |-> 0,
         res |-> "-", ends |-> FALSE, fill |-> FALSE, refill |-> FALSE, busy |-> FALSE,
         app |-> 0, pre |-> 0]

NoPos == [top |-> 0, left |-> 0]

NoNav == [op |-> "-", before |-> "-", p1 |-> NoPos, p2 |-> NoPos, k |-> 0]

NoProbe == [done |-> FALSE, raw |-> 0, out |-> 0, ltr |-> 0]

\* ------------------------------------------------------------ the queue
Task(op, sec, fill) == [op |-> op, sec |-> sec, fill |-> fill]

Idle == [op |-> "none", pc |-> "idle", depth |-> 0, fill |-> FALSE, iters |-> 0]

\* q.enqueue(task)
Enqueue(queue, task) == Append(queue, task)

\* ------------------------------------------------------------------ Init
\* the settings the window dynamics are explored under
WindowSettings ==
  { [axis |-> a, direction |-> "ltr", fullsize |-> FALSE, rtlScrollType |-> "none", offset |-> 1] :
      a \in {"horizontal", "vertical"} }

WindowLayout == [name |-> "reflowable", spread |-> FALSE, delta |-> Px, height |-> Px]

\* debounce(this.scrolled.bind(this), 30)
DebounceWait == 30

\* settings.afterScrolledTimeout, by default
AfterScrolledTimeout == 10

\* the time since an event is followed up to this value
LongAgo == DebounceWait + 1

\* no timer armed, no signal handled and no notification made for a long time
NoWait == [scrolled |-> 0 - 1, after |-> 0 - 1, sig |-> LongAgo, live |-> LongAgo,
           noted |-> LongAgo, rawTop |-> 0, rawLeft |-> 0, burst |-> 0]

\* an option that is not given, a setting that is undefined
Unset == 0 - 1

\* the defaults the constructor lays under the options
CtorDefaults == [gap |-> Unset, offset |-> 500, offsetDelta |-> 250,
                 afterScrolledTimeout |-> AfterScrolledTimeout]

\* the constructor has run with default options
Built == [done |-> TRUE, given |-> TRUE, zeros |-> TRUE, threw |-> FALSE,
          opts |-> [k \in DOMAIN CtorDefaults |-> Unset], settings |-> CtorDefaults]

NoTeardown == [calls |-> 0, returned |-> 0, threw |-> FALSE, snaps |-> 0]

\* after render() and addEventListeners() with settings.snap off: the container
\* exists, the scroll listener is registered and there is no snapper
Mounted ==
  /\ rendered = TRUE /\ listening = TRUE /\ snapper = "none"
  /\ scrollTimeout = FALSE
  /\ teardown = NoTeardown
  /\ wait = NoWait
  /\ ctor = Built

\* after display(section): the base manager has displayed one section, the
\* scroll listener is registered and fill() has enqueued its first check
Displayed(n) ==
  /\ spine = n
  /\ Mounted
  /\ settings \in WindowSettings
  /\ writingMode = "horizontal"
  /\ layout = WindowLayout
  /\ isPaginated = (settings.axis = "horizontal")
  /\ broken \in { b \in SUBSET Sections : Cardinality(b) <= MaxBroken }
  /\ \E s \in Sections \ broken :
       views = << [sec |-> s, displayed |-> TRUE, shown |-> TRUE, sized |-> TRUE, pre |-> FALSE] >>
  /\ cTop = 0 /\ cLeft = 0
  /\ scrollTop = 0 /\ scrollLeft = 0
  /\ ignore = FALSE
  /\ sigPending = FALSE /\ scrolledPending = FALSE /\ afterScrolled = FALSE
  /\ trimTimeout = FALSE
  /\ q = << Task("check", 0, TRUE) >>
  /\ run = Idle
  /\ inflight = {}
  /\ fillActive = TRUE
  /\ fillGrown = 0
  /\ last = NoOp
  /\ navHist = NoNav
  /\ probe = NoProbe

Init == Displayed(NSections)

\* ------------------------------------------------- the scroll tracker
\* the positions a user can scroll to: whole pixels within the content
ScrollRange == { p \in 0 .. Max(0, ContentLength - StageLen) : p % Px = 0 }

\* the work the manager has not finished: tasks queued or running, displays
\* not settled, timers armed, and scroll signals on their way to becoming a check
Load ==
  Len(q) + (IF run.op # "none" THEN 1 ELSE 0) + (IF sigPending THEN 1 ELSE 0)
         + (IF scrolledPending THEN 1 ELSE 0) + (IF trimTimeout THEN 1 ELSE 0)
         + (IF afterScrolled THEN 1 ELSE 0) + Cardinality(inflight)

\* the user (or the browser) moves the scroll owner along the active axis
UserScroll(p) ==
  /\ Load < MaxPending
  /\ p # RawPos
  /\ IF Horizontal THEN cLeft' = p /\ cTop' = cTop ELSE cTop' = p /\ cLeft' = cLeft
  /\ sigPending' = TRUE
  /\ last' = NoOp /\ navHist' = NoNav
  /\ UNCHANGED << mount, wait, scrollTimeout, spine, settings, writingMode, layout, isPaginated, broken, views, scrollTop,
                  scrollLeft, ignore, scrolledPending, afterScrolled, trimTimeout, q, run,
                  inflight, fillActive, fillGrown, probe >>

\* a faulty variant of onScroll(): an ignored signal leaves the flag set
OnScrollKeepsFlag ==
  /\ listening
  /\ sigPending
  /\ scrollTimeout' = TRUE
  /\ sigPending' = FALSE
  /\ scrollTop' = Tracked(cTop)
  /\ scrollLeft' = Tracked(cLeft)
  /\ IF ~ignore
     THEN scrolledPending' = TRUE /\ ignore' = ignore
     ELSE scrolledPending' = scrolledPending /\ ignore' = ignore
  /\ afterScrolled' = FALSE
  /\ last' = NoOp /\ navHist' = NoNav
  /\ UNCHANGED << mount, spine, settings, writingMode, layout, isPaginated, broken, views, cTop, cLeft,
                  trimTimeout, q, run, inflight, fillActive, fillGrown, probe >>

\* onScroll(): the handler of a raw scroll signal
OnScrollStep ==
  /\ listening
  /\ sigPending
  /\ scrollTimeout' = TRUE
  /\ sigPending' = FALSE
  /\ scrollTop' = Tracked(cTop)
  /\ scrollLeft' = Tracked(cLeft)
  /\ IF ~ignore
     THEN scrolledPending' = TRUE /\ ignore' = ignore
     ELSE scrolledPending' = scrolledPending /\ ignore' = FALSE
  /\ afterScrolled' = FALSE
  /\ last' = NoOp /\ navHist' = NoNav
  /\ UNCHANGED << mount, spine, settings, writingMode, layout, isPaginated, broken, views, cTop, cLeft,
                  trimTimeout, q, run, inflight, fillActive, fillGrown, probe >>

\* onScroll() where time is not followed
OnScroll == OnScrollStep /\ UNCHANGED wait

\* a faulty variant of the debounce: a call made while it is armed does not
\* restart the wait
RearmOnce(left) == IF left >= 0 THEN left ELSE DebounceWait

\* this._scrolled(): every call of the debounced function restarts the wait
Rearm(left) == DebounceWait

\* onScroll() at a moment in time: the debounce is restarted unless the signal
\* is ignored, the afterScrolled timer is cleared
OnScrollAt ==
  /\ OnScrollStep
  /\ wait' = [wait EXCEPT !.scrolled = IF ignore THEN @ ELSE Rearm(@),
                           !.after = 0 - 1,
                           !.sig = 0,
                           !.live = IF ignore THEN @ ELSE 0,
                           !.rawTop = cTop, !.rawLeft = cLeft,
                           !.burst = IF wait.sig < DebounceWait THEN Min(@ + 1, 2) ELSE 1]

\* a faulty variant of scrolled(): it drops the first view itself instead of
\* leaving the window to a queued check
ScrolledInline ==
  /\ scrolledPending
  /\ scrolledPending' = FALSE
  /\ views' = IF Len(views) > 1 THEN Tail(views) ELSE views
  /\ afterScrolled' = TRUE
  /\ last' = [NoOp EXCEPT !.op = "SCROLL"] /\ navHist' = NoNav
  /\ UNCHANGED << mount, wait, scrollTimeout, spine, settings, writingMode, layout, isPaginated, broken, cTop, cLeft,
                  scrollTop, scrollLeft, ignore, sigPending, trimTimeout, q, run, inflight,
                  fillActive, fillGrown, probe >>

\* scrolled(): the debounced notification; SCROLL carries the tracked position
ScrolledStep ==
  /\ scrolledPending
  /\ scrolledPending' = FALSE
  /\ q' = Enqueue(q, Task("check", 0, FALSE))
  /\ afterScrolled' = TRUE
  /\ last' = [NoOp EXCEPT !.op = "SCROLL", !.pos = scrollLeft, !.cross = scrollTop]
  /\ navHist' = NoNav
  /\ UNCHANGED << mount, scrollTimeout, spine, settings, writingMode, layout, isPaginated, broken, views, cTop, cLeft,
                  scrollTop, scrollLeft, ignore, sigPending, trimTimeout, run, inflight,
                  fillActive, fillGrown, probe >>

\* scrolled() where time is not followed
Scrolled == ScrolledStep /\ UNCHANGED wait

\* the debounce fires when its wait is over; the afterScrolled timer is set
ScrolledAt ==
  /\ wait.scrolled = 0
  /\ ScrolledStep
  /\ wait' = [wait EXCEPT !.scrolled = 0 - 1, !.after = AfterScrolledTimeout, !.noted = 0]

\* a faulty variant of the test in the afterScrolled timer: the snapper is
\* never asked
SnapHoldsNever(snap, touch, needs) == FALSE

\* this.snapper && this.snapper.supportsTouch && this.snapper.needsSnap()
SnapHolds(snap, touch, needs) == snap # "none" /\ touch /\ needs

\* the afterScrolled timer fires: SCROLLED is emitted unless a touch-capable
\* snapper says it still has to snap
AfterScrolledStep ==
  /\ afterScrolled
  /\ afterScrolled' = FALSE
  /\ \E touch \in (IF snapper = "none" THEN {FALSE} ELSE BOOLEAN),
        needs \in (IF snapper = "none" THEN {FALSE} ELSE BOOLEAN) :
       last' = [NoOp EXCEPT !.op = IF SnapHolds(snapper, touch, needs)
                                   THEN "snapping" ELSE "SCROLLED",
                            !.busy = touch /\ needs]
  /\ navHist' = NoNav
  /\ UNCHANGED << mount, scrollTimeout, spine, settings, writingMode, layout, isPaginated, broken, views, cTop, cLeft,
                  scrollTop, scrollLeft, ignore, sigPending, scrolledPending, trimTimeout,
                  q, run, inflight, fillActive, fillGrown, probe >>

\* the afterScrolled timer where time is not followed
AfterScrolledFire == AfterScrolledStep /\ UNCHANGED wait

\* the afterScrolled timer fires when its time is over
AfterScrolledAt ==
  /\ wait.after = 0
  /\ AfterScrolledStep
  /\ wait' = [wait EXCEPT !.after = 0 - 1]

\* one unit of time passes; a timer whose time is over fires first
Tick ==
  /\ wait.scrolled # 0 /\ wait.after # 0
  /\ wait' = [wait EXCEPT !.scrolled = IF @ > 0 THEN @ - 1 ELSE @,
                           !.after = IF @ > 0 THEN @ - 1 ELSE @,
                           !.sig = Min(@ + 1, LongAgo),
                           !.live = Min(@ + 1, LongAgo),
                           !.noted = Min(@ + 1, LongAgo)]
  /\ last' = NoOp /\ navHist' = NoNav
  /\ UNCHANGED << mount, scrollTimeout, spine, settings, writingMode, layout, isPaginated, broken,
                  views, cTop, cLeft, scrollTop, scrollLeft, ignore, sigPending,
                  scrolledPending, afterScrolled, trimTimeout, q, run, inflight,
                  fillActive, fillGrown, probe >>

\* the delta-reset timer set by onScroll() fires: the scroll deltas are zeroed
ScrollTimeoutFire ==
  /\ scrollTimeout
  /\ scrollTimeout' = FALSE
  /\ last' = NoOp /\ navHist' = NoNav
  /\ UNCHANGED << mount, wait, spine, settings, writingMode, layout, isPaginated, broken, views, cTop, cLeft,
                  scrollTop, scrollLeft, ignore, sigPending, scrolledPending, afterScrolled,
                  trimTimeout, q, run, inflight, fillActive, fillGrown, probe >>

\* the trim timer set by update() fires
TrimTimerFire ==
  /\ trimTimeout
  /\ trimTimeout' = FALSE
  /\ q' = Enqueue(q, Task("trim", 0, FALSE))
  /\ last' = NoOp /\ navHist' = NoNav
  /\ UNCHANGED << mount, wait, scrollTimeout, spine, settings, writingMode, layout, isPaginated, broken, views, cTop, cLeft,
                  scrollTop, scrollLeft, ignore, sigPending, scrolledPending, afterScrolled,
                  run, inflight, fillActive, fillGrown, probe >>


\* ------------------------------------------------------ views and displays
\* the position of the view of section s in vs, 0 when it holds none
RECURSIVE IndexOfSec(_, _, _)
IndexOfSec(vs, s, i) ==
  IF i > Len(vs) THEN 0 ELSE IF vs[i].sec = s THEN i ELSE IndexOfSec(vs, s, i + 1)

\* view.display() resolved: the content is rendered and the view has its extent
DisplayDone(vs, s) ==
  [i \in 1 .. Len(vs) |->
     IF vs[i].sec = s THEN [vs[i] EXCEPT !.displayed = TRUE, !.sized = TRUE] ELSE vs[i]]

\* view.show() / view.hide()
SetShown(vs, s, b) ==
  [i \in 1 .. Len(vs) |-> IF vs[i].sec = s THEN [vs[i] EXCEPT !.shown = b] ELSE vs[i]]

\* view.destroy(): the render resources are released, the element keeps its extent
DestroyView(vs, s) ==
  [i \in 1 .. Len(vs) |->
     IF vs[i].sec = s THEN [vs[i] EXCEPT !.displayed = FALSE, !.shown = FALSE] ELSE vs[i]]

\* a faulty variant of update()'s handlers: the view is shown either way
AfterDisplayShown(vs, s, ok) ==
  IF ok THEN SetShown(DisplayDone(vs, s), s, TRUE) ELSE SetShown(vs, s, TRUE)

\* update(): view.display(...).then(view => view.show(), err => view.hide())
AfterDisplay(vs, s, ok) ==
  IF ok THEN SetShown(DisplayDone(vs, s), s, TRUE) ELSE SetShown(vs, s, FALSE)

\* prepend(): the RESIZED handler of a prepended view calls counter(bounds);
\* the delta it is given when the view of section s gets its extent
ResizeDelta(vs, s) ==
  LET i == IndexOfSec(vs, s, 1)
  IN  IF i # 0 /\ vs[i].pre /\ ~vs[i].sized THEN Ext(s) ELSE 0

\* scrollBy(x, y, silent) of the base manager: the delta is added to the raw position
ScrollBy(pos, x, y) == [top |-> pos.top + y, left |-> pos.left + x]

\* scrollTo(x, y, silent) of the base manager: the raw position is assigned
ScrollTo(x, y) == [top |-> y, left |-> x]

\* counter(bounds)
Counter(pos, delta) ==
  IF settings.axis = "vertical" THEN ScrollBy(pos, 0, delta) ELSE ScrollBy(pos, delta, 0)

\* isVisible(view, offset, offset, container) of the base manager: the view's
\* bounds meet the visible range widened by the margin on both sides
IsVisible(vs, i, margin, offset) ==
  LET l == SumBounds(SubSeq(vs, 1, i - 1))
      r == l + Bounds(vs[i])
  IN  r > offset - margin /\ l < offset + StageLen + margin

\* update(): one visibility pass over vs; the views it shows, the displays it
\* starts and the views it finds hidden, in window order
UpdatePass(vs, margin, offset) ==
  LET vis == { i \in 1 .. Len(vs) : IsVisible(vs, i, margin, offset) }
      hid == [i \in 1 .. Len(vs) |-> i \notin vis]
      RECURSIVE Hidden(_)
      Hidden(i) == IF i > Len(vs) THEN << >>
                   ELSE IF hid[i] THEN << Task("destroy", vs[i].sec, FALSE) >> \o Hidden(i + 1)
                   ELSE Hidden(i + 1)
  IN  [views |-> [i \in 1 .. Len(vs) |->
                    IF i \in vis /\ vs[i].displayed THEN [vs[i] EXCEPT !.shown = TRUE] ELSE vs[i]],
       start |-> { vs[i].sec : i \in { j \in vis : ~vs[j].displayed } },
       hidden |-> Hidden(1)]

\* check(): delta, the margin (no offset hint is passed by any caller in this file)
CheckDelta == settings.offset

\* a faulty variant of append(): the section after the first view is requested
AppendPassFirst(vs, offset) ==
  LET end == offset + VisibleLength + CheckDelta
      next == IF Len(vs) > 0 THEN SectionNext(vs[1].sec) ELSE 0
  IN  IF end >= SumBounds(vs) /\ next # 0 THEN << next >> ELSE << >>

\* check(): append()
AppendPass(vs, offset) ==
  LET end == offset + VisibleLength + CheckDelta
      next == IF Len(vs) > 0 THEN SectionNext(vs[Len(vs)].sec) ELSE 0
  IN  IF end >= SumBounds(vs) /\ next # 0 THEN << next >> ELSE << >>

\* a faulty variant of prepend(): it also fires when start is exactly 0
PrependPassAtZero(vs, offset) ==
  LET start == offset - CheckDelta
      prev == IF Len(vs) > 0 THEN SectionPrev(vs[1].sec) ELSE 0
  IN  IF start <= 0 /\ prev # 0 THEN << prev >> ELSE << >>

\* check(): prepend()
PrependPass(vs, offset) ==
  LET start == offset - CheckDelta
      prev == IF Len(vs) > 0 THEN SectionPrev(vs[1].sec) ELSE 0
  IN  IF start < 0 /\ prev # 0 THEN << prev >> ELSE << >>

\* check(): one pass; the window after growth and the sections added
CheckPass(vs, offset) ==
  LET app == AppendPass(vs, offset)
      vs1 == IF app # << >> THEN Append(vs, NewView(app[1], FALSE)) ELSE vs
      pre == PrependPass(vs1, offset)
      vs2 == IF pre # << >> THEN << NewView(pre[1], TRUE) >> \o vs1 ELSE vs1
  IN  [views |-> vs2, added |-> SeqToSet(app) \cup SeqToSet(pre),
       app |-> IF app # << >> THEN app[1] ELSE 0,
       pre |-> IF pre # << >> THEN pre[1] ELSE 0,
       ends |-> Len(vs) > 0 /\ SectionPrev(vs[1].sec) = 0 /\ SectionNext(vs[Len(vs)].sec) = 0]

RECURSIVE Repeat(_, _)
Repeat(seq, n) == IF n <= 0 THEN << >> ELSE seq \o Repeat(seq, n - 1)

\* fill(): the value check() resolved with is tested for truth
Truthy(res) == res \in {"array", "err", "true"}

\* the queue resolves the task's promise; fill()'s callback runs
\* (fill(full) again on a true result, full.resolve() otherwise)
FillThen(queue, fill, res) ==
  IF fill /\ Truthy(res) THEN Enqueue(queue, Task("check", 0, TRUE)) ELSE queue

\* check(): .then(() => this.update(delta)) of the levels that are still
\* open, from the innermost (depth d) outwards
InlineUpdate(vs, queue, infl, timer, d, fill, iters, pos) ==
  LET u == UpdatePass(vs, CheckDelta, LiveOffsetOf(vs, pos.top, pos.left))
  IN  IF u.start # {}
      THEN [views |-> u.views, q |-> queue \o u.hidden,
            inflight |-> infl \cup { [sec |-> s, own |-> "upd"] : s \in u.start },
            trimTimeout |-> timer \/ u.hidden # << >>,
            run |-> [op |-> "check", pc |-> "updating", depth |-> d, fill |-> fill,
                     iters |-> iters],
            res |-> "-"]
      ELSE [views |-> u.views, q |-> queue \o Repeat(u.hidden, d),
            inflight |-> infl,
            trimTimeout |-> timer \/ u.hidden # << >>,
            run |-> Idle,
            res |-> "undefined"]


\* ------------------------------------------------------- the check task
\* displays still running whose task the queue has already taken as finished
Unsettled == { d \in inflight : d.own \in {"orphanUpd", "orphanGrow"} }

Static == UNCHANGED << mount, wait, scrollTimeout, spine, settings, writingMode, layout, isPaginated, broken, probe >>

Pos == [top |-> cTop, left |-> cLeft]

\* a check task waiting for the displays of the views it added
Growing(vs, infl, d, fill, iters) ==
  [views |-> vs, q |-> q, inflight |-> infl, trimTimeout |-> trimTimeout,
   run |-> [op |-> "check", pc |-> "growing", depth |-> d, fill |-> fill, iters |-> iters],
   res |-> "-"]

\* a check task whose promise resolved with res
Resolved(vs, queue, infl, res) ==
  [views |-> vs, q |-> queue, inflight |-> infl, trimTimeout |-> trimTimeout,
   run |-> Idle, res |-> res]

\* the step of a check task: the new window, queue, displays and position;
\* when the task's promise resolved, the queue settles it and fill()'s callback runs
Step(r, pos, ign, fill, rec) ==
  /\ views' = r.views
  /\ inflight' = r.inflight
  /\ trimTimeout' = r.trimTimeout
  /\ run' = r.run
  /\ q' = IF r.res = "-" THEN r.q ELSE FillThen(r.q, fill, r.res)
  /\ fillActive' = IF r.res # "-" /\ fill /\ ~Truthy(r.res) THEN FALSE ELSE fillActive
  /\ fillGrown' = IF r.res # "-" /\ fill /\ ~Truthy(r.res) THEN 0
                  ELSE IF fill /\ rec.op = "check" /\ rec.n > 0 /\ fillGrown <= spine
                  THEN fillGrown + 1
                  ELSE fillGrown
  /\ cTop' = pos.top /\ cLeft' = pos.left
  /\ sigPending' = (sigPending \/ pos # Pos)
  /\ ignore' = ign
  /\ last' = [rec EXCEPT !.res = r.res, !.fill = (fill /\ r.res # "-"),
                         !.refill = (r.res # "-" /\ fill /\ Truthy(r.res))]
  /\ navHist' = NoNav
  /\ UNCHANGED << scrollTop, scrollLeft, scrolledPending, afterScrolled >>
  /\ Static

PassRec(pass) ==
  [NoOp EXCEPT !.op = "check", !.n = Cardinality(pass.added), !.ends = pass.ends,
               !.app = pass.app, !.pre = pass.pre]

\* the queue starts a check task: the first pass of check()
RunCheck ==
  /\ run.op = "none" /\ q # << >> /\ Head(q).op = "check"
  /\ LET t == Head(q)
         pass == CheckPass(views, CheckOffsetOf(views))
     IN  IF pass.added # {}
         THEN Step([Growing(pass.views,
                            inflight \cup { [sec |-> s, own |-> "grow"] : s \in pass.added },
                            1, t.fill, 1) EXCEPT !.q = Tail(q)],
                   Pos, ignore, t.fill, [PassRec(pass) EXCEPT !.busy = Unsettled # {}])
         ELSE Step(Resolved(views, Enqueue(Tail(q), Task("update", 0, FALSE)), inflight, "false"),
                   Pos, ignore, t.fill, [PassRec(pass) EXCEPT !.busy = Unsettled # {}])

\* the display of a view added by check() settles; when it was the last one
\* of its pass, Promise.all resolves and check() recurses
GrowSettle(s) ==
  /\ run.op = "check" /\ run.pc = "growing"
  /\ [sec |-> s, own |-> "grow"] \in inflight
  /\ LET infl == inflight \ { [sec |-> s, own |-> "grow"] }
         rest == { d \in infl : d.own = "grow" }
     IN  IF s \notin broken
         THEN LET delta == ResizeDelta(views, s)
                  vs1 == DisplayDone(views, s)
                  pos1 == IF delta # 0 THEN Counter(Pos, delta) ELSE Pos
                  ign1 == ignore \/ delta # 0
              IN  IF rest # {}
                  THEN Step(Growing(vs1, infl, run.depth, run.fill, run.iters),
                            pos1, ign1, run.fill, NoOp)
                  ELSE LET pass == CheckPass(vs1, CheckOffsetOf(vs1))
                       IN  IF pass.added # {}
                           THEN Step(Growing(pass.views,
                                             infl \cup { [sec |-> x, own |-> "grow"] : x \in pass.added },
                                             run.depth + 1, run.fill, run.iters + 1),
                                     pos1, ign1, run.fill, PassRec(pass))
                           ELSE Step(InlineUpdate(vs1, Enqueue(q, Task("update", 0, FALSE)), infl,
                                                  trimTimeout, run.depth, run.fill, run.iters, pos1),
                                     pos1, ign1, run.fill, PassRec(pass))
         ELSE \* Promise.all rejects: err => err resolves this level with the error
              LET infl1 == (infl \ rest) \cup { [sec |-> d.sec, own |-> "orphanGrow"] : d \in rest }
              IN  IF run.depth = 1
                  THEN Step(Resolved(views, q, infl1, "err"), Pos, ignore, run.fill,
                            NoOp)
                  ELSE Step(InlineUpdate(views, q, infl1, trimTimeout, run.depth - 1,
                                         run.fill, run.iters, Pos),
                            Pos, ignore, run.fill, NoOp)

\* a display started by the update() that check() awaits settles
UpdSettle(s) ==
  /\ run.op = "check" /\ run.pc = "updating"
  /\ [sec |-> s, own |-> "upd"] \in inflight
  /\ LET infl == inflight \ { [sec |-> s, own |-> "upd"] }
         rest == { d \in infl : d.own = "upd" }
         ok == s \notin broken
         delta == IF ok THEN ResizeDelta(views, s) ELSE 0
         vs1 == AfterDisplay(views, s, ok)
         pos1 == IF delta # 0 THEN Counter(Pos, delta) ELSE Pos
         ign1 == ignore \/ delta # 0
     IN  IF rest # {}
         THEN Step([views |-> vs1, q |-> q, inflight |-> infl, trimTimeout |-> trimTimeout,
                    run |-> run, res |-> "-"],
                   pos1, ign1, run.fill, NoOp)
         ELSE IF run.depth = 1
         THEN Step(Resolved(vs1, q, infl, "array"), pos1, ign1, run.fill,
                   NoOp)
         ELSE Step(InlineUpdate(vs1, q, infl, trimTimeout, run.depth - 1, run.fill,
                                run.iters, pos1),
                   pos1, ign1, run.fill, NoOp)

\* a display nobody awaits settles: one started by a queued update(), or one
\* left behind by a rejected Promise.all
OrphanSettle(d) ==
  /\ d \in inflight /\ d.own \in {"orphanUpd", "orphanGrow"}
  /\ LET ok == d.sec \notin broken
         delta == IF ok THEN ResizeDelta(views, d.sec) ELSE 0
         vs1 == IF d.own = "orphanUpd" THEN AfterDisplay(views, d.sec, ok)
                ELSE IF ok THEN DisplayDone(views, d.sec) ELSE views
         pos1 == IF delta # 0 THEN Counter(Pos, delta) ELSE Pos
     IN  /\ views' = vs1
         /\ inflight' = inflight \ {d}
         /\ cTop' = pos1.top /\ cLeft' = pos1.left
         /\ sigPending' = (sigPending \/ pos1 # Pos)
         /\ ignore' = (ignore \/ delta # 0)
  /\ last' = NoOp /\ navHist' = NoNav
  /\ UNCHANGED << scrollTop, scrollLeft, scrolledPending, afterScrolled, trimTimeout, q, run,
                  fillActive, fillGrown >>
  /\ Static


\* ------------------------------------------------ the other queued tasks
\* the task check() enqueues, function(){ this.update(); }: the pass runs, the
\* task returns nothing, so the queue takes it as finished at once
RunUpdate ==
  /\ run.op = "none" /\ q # << >> /\ Head(q).op = "update"
  /\ LET u == UpdatePass(views, CheckDelta, LiveOffset)
     IN  /\ views' = u.views
         /\ q' = Tail(q) \o u.hidden
         /\ inflight' = inflight \cup { [sec |-> s, own |-> "orphanUpd"] : s \in u.start }
         /\ trimTimeout' = (trimTimeout \/ u.hidden # << >>)
  /\ last' = [NoOp EXCEPT !.op = "update", !.busy = Unsettled # {}] /\ navHist' = NoNav
  /\ UNCHANGED << cTop, cLeft, scrollTop, scrollLeft, ignore, sigPending, scrolledPending,
                  afterScrolled, run, fillActive, fillGrown >>
  /\ Static

\* the task update() enqueues for a hidden view: view.destroy()
RunDestroy ==
  /\ run.op = "none" /\ q # << >> /\ Head(q).op = "destroy"
  /\ views' = DestroyView(views, Head(q).sec)
  /\ q' = Tail(q)
  /\ last' = [NoOp EXCEPT !.op = "destroy", !.busy = Unsettled # {}] /\ navHist' = NoNav
  /\ UNCHANGED << cTop, cLeft, scrollTop, scrollLeft, ignore, sigPending, scrolledPending,
                  afterScrolled, trimTimeout, run, inflight, fillActive, fillGrown >>
  /\ Static

\* Array.prototype.slice(b, e) on a sequence
Slice(vs, b, e) ==
  LET n == Len(vs)
      lo == IF b < 0 THEN Max(n + b, 0) ELSE IF b > n THEN n ELSE b
      hi == IF e < 0 THEN Max(n + e, 0) ELSE IF e > n THEN n ELSE e
  IN  SubSeq(vs, lo + 1, hi)

\* views.remove(view): the view leaves the window and is destroyed
RemoveView(vs, s) == SelectSeq(vs, LAMBDA v : v.sec # s)

\* a faulty variant of erase(): the view is measured after it left the window,
\* when it has no extent any more
EraseUnmeasured(st, v, above) ==
  LET prevTop == st.pos.top
      prevLeft == st.pos.left
      bounds == 0
      to == IF settings.axis = "vertical"
            THEN ScrollTo(0, prevTop - bounds)
            ELSE IF settings.direction = "rtl"
                 THEN IF ~settings.fullsize
                      THEN ScrollTo(prevLeft, 0)
                      ELSE ScrollTo(prevLeft + Floor(bounds), 0)
                 ELSE ScrollTo(prevLeft - Floor(bounds), 0)
      i == IndexOfSec(st.views, v.sec, 1)
      was == IF i # 0 THEN Bounds(st.views[i]) ELSE 0
  IN  IF above
      THEN [views |-> RemoveView(st.views, v.sec), pos |-> to, ign |-> TRUE,
            n |-> st.n + 1, m |-> st.m, ext |-> st.ext + was, fext |-> st.fext + Floor(was),
            gone |-> st.gone \cup {v.sec}]
      ELSE [st EXCEPT !.views = RemoveView(st.views, v.sec), !.m = st.m + 1,
                      !.gone = st.gone \cup {v.sec}]

\* erase(view, above): the state of a trim after one more view is erased
Erase(st, v, above) ==
  LET prevTop == st.pos.top
      prevLeft == st.pos.left
      i == IndexOfSec(st.views, v.sec, 1)
      bounds == IF i # 0 THEN Bounds(st.views[i]) ELSE 0
      to == IF settings.axis = "vertical"
            THEN ScrollTo(0, prevTop - bounds)
            ELSE IF settings.direction = "rtl"
                 THEN IF ~settings.fullsize
                      THEN ScrollTo(prevLeft, 0)
                      ELSE ScrollTo(prevLeft + Floor(bounds), 0)
                 ELSE ScrollTo(prevLeft - Floor(bounds), 0)
  IN  IF above
      THEN [views |-> RemoveView(st.views, v.sec), pos |-> to, ign |-> TRUE,
            n |-> st.n + 1, m |-> st.m, ext |-> st.ext + bounds, fext |-> st.fext + Floor(bounds),
            gone |-> st.gone \cup {v.sec}]
      ELSE [st EXCEPT !.views = RemoveView(st.views, v.sec), !.m = st.m + 1,
                      !.gone = st.gone \cup {v.sec}]

RECURSIVE EraseAll(_, _, _)
EraseAll(st, vs, above) ==
  IF vs = << >> THEN st ELSE EraseAll(Erase(st, Head(vs), above), Tail(vs), above)

\* a faulty variant of trim(): the loop over the views above stops one short
TrimPassShort(vs, pos, ign) ==
  LET displayed == SelectIdx(vs, 1)
      firstIndex == IF displayed = << >> THEN -1 ELSE displayed[1] - 1
      lastIndex == IF displayed = << >> THEN -1 ELSE displayed[Len(displayed)] - 1
      above == Slice(vs, 0, firstIndex)
      below == Slice(vs, lastIndex + 1, Len(vs))
      st0 == [views |-> vs, pos |-> pos, ign |-> ign, n |-> 0, m |-> 0, ext |-> 0, fext |-> 0,
              gone |-> {}]
      st1 == EraseAll(st0, SubSeq(above, 1, Len(above) - 2), TRUE)
  IN  EraseAll(st1, SubSeq(below, 2, Len(below)), FALSE)

\* a faulty variant of trim(): the views below are counted from the first
\* displayed view, not from the last
TrimPassFromFirst(vs, pos, ign) ==
  LET displayed == SelectIdx(vs, 1)
      firstIndex == IF displayed = << >> THEN -1 ELSE displayed[1] - 1
      lastIndex == firstIndex
      above == Slice(vs, 0, firstIndex)
      below == Slice(vs, lastIndex + 1, Len(vs))
      st0 == [views |-> vs, pos |-> pos, ign |-> ign, n |-> 0, m |-> 0, ext |-> 0, fext |-> 0,
              gone |-> {}]
      st1 == EraseAll(st0, SubSeq(above, 1, Len(above) - 1), TRUE)
  IN  EraseAll(st1, SubSeq(below, 2, Len(below)), FALSE)

\* trim(): all but the last view above the displayed range and all but the
\* first view below it are erased
TrimPass(vs, pos, ign) ==
  LET displayed == SelectIdx(vs, 1)
      firstIndex == IF displayed = << >> THEN -1 ELSE displayed[1] - 1
      lastIndex == IF displayed = << >> THEN -1 ELSE displayed[Len(displayed)] - 1
      above == Slice(vs, 0, firstIndex)
      below == Slice(vs, lastIndex + 1, Len(vs))
      st0 == [views |-> vs, pos |-> pos, ign |-> ign, n |-> 0, m |-> 0, ext |-> 0, fext |-> 0,
              gone |-> {}]
      st1 == EraseAll(st0, SubSeq(above, 1, Len(above) - 1), TRUE)
  IN  EraseAll(st1, SubSeq(below, 2, Len(below)), FALSE)

\* a queued destroy of an erased view finds it destroyed already and does nothing
Neutralize(queue, gone) ==
  [i \in 1 .. Len(queue) |->
     IF queue[i].op = "destroy" /\ queue[i].sec \in gone THEN Task("destroy", 0, FALSE)
     ELSE queue[i]]

\* the trim task
RunTrim ==
  /\ run.op = "none" /\ q # << >> /\ Head(q).op = "trim"
  /\ LET t == TrimPass(views, Pos, ignore)
     IN  /\ views' = t.views
         /\ cTop' = t.pos.top /\ cLeft' = t.pos.left
         /\ ignore' = t.ign
         /\ sigPending' = (sigPending \/ t.pos # Pos)
         /\ q' = Neutralize(Tail(q), t.gone)
         /\ inflight' = { d \in inflight : d.sec \notin t.gone }
         /\ last' = [NoOp EXCEPT !.op = "trim", !.pos = RawPos,
                                 !.cross = IF Horizontal THEN cTop ELSE cLeft,
                                 !.n = t.n, !.m = t.m, !.ext = t.ext, !.fext = t.fext,
                                 !.busy = Unsettled # {}]
  /\ navHist' = NoNav
  /\ UNCHANGED << scrollTop, scrollLeft, scrolledPending, afterScrolled, trimTimeout, run,
                  fillActive, fillGrown >>
  /\ Static

\* ---------------------------------------------------------- navigation
\* a faulty variant of delta: doubled for a spread of any layout
NavDeltaAnySpread ==
  IF layout.spread THEN layout.delta * 2 ELSE layout.delta

\* next(), prev(): delta
NavDelta ==
  IF layout.name = "pre-paginated" /\ layout.spread THEN layout.delta * 2 ELSE layout.delta

\* a faulty variant of next(): the step is not doubled for a spread
NextStepSingle(pos) ==
  IF isPaginated /\ settings.axis = "horizontal"
  THEN ScrollBy(pos, layout.delta, 0)
  ELSE ScrollBy(pos, 0, layout.height)

\* next(): the scroll step
NextStep(pos) ==
  IF isPaginated /\ settings.axis = "horizontal"
  THEN ScrollBy(pos, NavDelta, 0)
  ELSE ScrollBy(pos, 0, layout.height)

\* prev(): the scroll step
PrevStep(pos) ==
  IF isPaginated /\ settings.axis = "horizontal"
  THEN ScrollBy(pos, 0 - NavDelta, 0)
  ELSE ScrollBy(pos, 0, 0 - layout.height)

\* the raw positions the model lets navigation reach
InRange(pos) ==
  LET along == IF Horizontal THEN pos.left ELSE pos.top
      across == IF Horizontal THEN pos.top ELSE pos.left
  IN  /\ along >= 0 /\ along <= Max(0, ContentLength - StageLen)
      /\ across >= 0 /\ across <= StageLen

\* a faulty variant of the test next() and prev() start with: never empty
NoViewsNever(vs) == FALSE

\* next(), prev(): if (!this.views.length) return;
NoViews(vs) == Len(vs) = 0

\* what next() and prev() leave in the history: the call, the raw position
\* and the length of the queue it started from
NavRec(op) == [NoOp EXCEPT !.op = op, !.pos = cLeft, !.cross = cTop, !.n = Len(q)]

Navigate(op, to) ==
  /\ IF navHist.k = 0 THEN Load + 2 <= MaxPending ELSE navHist.k < MaxNav
  /\ IF NoViews(views)
     THEN /\ last' = NavRec(op)
          /\ UNCHANGED << views, cTop, cLeft, scrollTop, scrollLeft, ignore, sigPending,
                          scrolledPending, afterScrolled, trimTimeout, q, run, inflight,
                          fillActive, fillGrown, navHist >>
          /\ Static
     ELSE /\ InRange(to)
          /\ cTop' = to.top /\ cLeft' = to.left
          /\ ignore' = TRUE
          /\ sigPending' = (sigPending \/ to # Pos)
          /\ q' = Enqueue(q, Task("check", 0, FALSE))
          /\ last' = NavRec(op)
          /\ navHist' = [op |-> op, before |-> navHist.op, p1 |-> Pos, p2 |-> navHist.p1,
                          k |-> navHist.k + 1]
          /\ UNCHANGED << views, scrollTop, scrollLeft, scrolledPending, afterScrolled,
                          trimTimeout, run, inflight, fillActive, fillGrown >>
          /\ Static

NextOp == Navigate("next", NextStep(Pos))

PrevOp == Navigate("prev", PrevStep(Pos))

\* fill(), as display() calls it
Fill ==
  /\ ~fillActive /\ Load < MaxPending
  /\ fillActive' = TRUE
  /\ fillGrown' = 0
  /\ q' = Enqueue(q, Task("check", 0, TRUE))
  /\ last' = NoOp /\ navHist' = NoNav
  /\ UNCHANGED << views, cTop, cLeft, scrollTop, scrollLeft, ignore, sigPending,
                  scrolledPending, afterScrolled, trimTimeout, run, inflight >>
  /\ Static

\* ------------------------------------------------------- specification
Next ==
  \/ \E p \in ScrollRange : UserScroll(p)
  \/ OnScroll
  \/ Scrolled
  \/ AfterScrolledFire
  \/ TrimTimerFire
  \/ RunCheck
  \/ \E s \in Sections : GrowSettle(s)
  \/ \E s \in Sections : UpdSettle(s)
  \/ \E d \in inflight : OrphanSettle(d)
  \/ RunUpdate
  \/ RunDestroy
  \/ RunTrim
  \/ NextOp
  \/ PrevOp
  \/ Fill

Spec == Init /\ [][Next]_vars

\* ------------------------------------------------ fill() left to itself
\* a book one section longer, opened and then left alone: no scroll, no
\* navigation and no second display(), only the manager's own work
InitFill == Displayed(NSections + 1)

NextFill ==
  \/ OnScroll
  \/ TrimTimerFire
  \/ RunCheck
  \/ \E s \in Sections : GrowSettle(s)
  \/ \E s \in Sections : UpdSettle(s)
  \/ \E d \in inflight : OrphanSettle(d)
  \/ RunUpdate
  \/ RunDestroy
  \/ RunTrim

SpecFill == InitFill /\ [][NextFill]_vars

\* ---------------------------------------------- the offset computation alone
\* every combination of the settings the manager reads
AllSettings ==
  { [axis |-> a, direction |-> d, fullsize |-> f, rtlScrollType |-> t, offset |-> 1] :
      a \in {"horizontal", "vertical"}, d \in {"ltr", "rtl"}, f \in BOOLEAN,
      t \in {"none", "default", "negative"} }

\* a view that is rendered and on screen
FullView(s) == [sec |-> s, displayed |-> TRUE, shown |-> TRUE, sized |-> TRUE, pre |-> FALSE]

\* the raw coordinates a scroll owner reports, negative ones included
RawRange == { 0 - Px, 0, Px, Px + 1 }

\* nothing is queued, running or armed
Quiet ==
  /\ ignore = FALSE /\ scrolledPending = FALSE /\ afterScrolled = FALSE
  /\ q = << >> /\ run = Idle /\ inflight = {}
  /\ fillActive = FALSE /\ fillGrown = 0
  /\ last = NoOp /\ navHist = NoNav /\ probe = NoProbe

\* a manager under any settings, its scroll owner at any raw position, a scroll
\* signal waiting
InitNorm ==
  /\ spine = NSections
  /\ Mounted
  /\ settings \in AllSettings
  /\ writingMode \in {"horizontal", "vertical"}
  /\ layout = WindowLayout
  /\ isPaginated = (settings.axis = "horizontal")
  /\ broken = {}
  /\ views = << FullView(1), FullView(2) >>
  /\ cTop \in RawRange /\ cLeft \in RawRange
  /\ scrollTop = 0 /\ scrollLeft = 0
  /\ sigPending = TRUE /\ trimTimeout = FALSE
  /\ Quiet

\* check(): the offset it computes from the tracked position, next to the
\* offset the same position gives under direction ltr
Normalize ==
  /\ ~sigPending /\ ~probe.done
  /\ LET raw == IF Horizontal THEN scrollLeft ELSE scrollTop
     IN  probe' = [done |-> TRUE, raw |-> raw, out |-> CheckOffsetOf(views),
                   ltr |-> NormalizeOffset(raw, settings.fullsize, FALSE, settings.rtlScrollType,
                                           Horizontal, writingMode, ContentLength, VisibleLength)]
  /\ UNCHANGED << mount, wait, scrollTimeout, spine, settings, writingMode, layout, isPaginated, broken, views, cTop, cLeft,
                  scrollTop, scrollLeft, ignore, sigPending, scrolledPending, afterScrolled,
                  trimTimeout, q, run, inflight, fillActive, fillGrown, last, navHist >>

NextNorm == OnScroll \/ Normalize

SpecNorm == InitNorm /\ [][NextNorm]_vars

\* ------------------------------------------------------ the eviction alone
\* the window of sections a .. b whose views of the sections in D are displayed
WindowOf(a, b, D) ==
  [i \in 1 .. (b - a + 1) |->
     [sec |-> a + i - 1, displayed |-> (a + i - 1) \in D, shown |-> (a + i - 1) \in D,
      sized |-> TRUE, pre |-> FALSE]]

\* every contiguous window, the empty one included, with any views displayed
EraseWindows ==
  UNION { { WindowOf(a, b, D) : D \in SUBSET (a .. b) } : a \in Sections, b \in Sections }

\* a manager under any settings holding any window, scrolled anywhere, its
\* trim timer armed
InitErase ==
  /\ spine = NSections + 1
  /\ Mounted
  /\ settings \in AllSettings
  /\ writingMode = "horizontal"
  /\ layout = WindowLayout
  /\ isPaginated = (settings.axis = "horizontal")
  /\ broken = {}
  /\ views \in EraseWindows
  /\ \E p \in ScrollRange, c \in {0, Px} :
       IF Horizontal THEN cLeft = p /\ cTop = c ELSE cTop = p /\ cLeft = c
  /\ scrollTop = Tracked(cTop) /\ scrollLeft = Tracked(cLeft)
  /\ sigPending = FALSE /\ trimTimeout = TRUE
  /\ Quiet

NextErase == TrimTimerFire \/ RunTrim \/ OnScroll

SpecErase == InitErase /\ [][NextErase]_vars

\* ------------------------------------------- one check() from any window
\* the tracked positions a check can find: before, inside and past the content
GrowRange == (0 - Px) .. (ContentLength + Px)

\* a manager under any settings holding any non-empty window of rendering
\* sections, its tracked position anywhere, one check task waiting
InitGrow ==
  /\ spine = NSections
  /\ Mounted
  /\ settings \in AllSettings
  /\ writingMode = "horizontal"
  /\ layout = WindowLayout
  /\ isPaginated = (settings.axis = "horizontal")
  /\ broken = {}
  /\ views \in EraseWindows \ { << >> }
  /\ \E p \in GrowRange :
       IF Horizontal THEN cLeft = p /\ cTop = 0 ELSE cTop = p /\ cLeft = 0
  /\ scrollTop = Tracked(cTop) /\ scrollLeft = Tracked(cLeft)
  /\ ignore = FALSE
  /\ sigPending = FALSE /\ scrolledPending = FALSE /\ afterScrolled = FALSE
  /\ trimTimeout = FALSE
  /\ q = << Task("check", 0, FALSE) >>
  /\ run = Idle
  /\ inflight = {}
  /\ fillActive = FALSE /\ fillGrown = 0
  /\ last = NoOp /\ navHist = NoNav /\ probe = NoProbe

NextGrow ==
  \/ RunCheck
  \/ \E s \in Sections : GrowSettle(s)
  \/ \E s \in Sections : UpdSettle(s)
  \/ OnScroll

SpecGrow == InitGrow /\ [][NextGrow]_vars

\* ------------------------------------- visibility passes with failing renders
\* the window [a .. b] in which the sections of D are displayed and shown and
\* the sections of B have never rendered
WindowWith(a, b, D, B) ==
  [i \in 1 .. (b - a + 1) |->
     [sec |-> a + i - 1, displayed |-> (a + i - 1) \in D, shown |-> (a + i - 1) \in D,
      sized |-> (a + i - 1) \notin B, pre |-> FALSE]]

\* a manager holding any non-empty window in which some sections never render,
\* scrolled anywhere, with a visibility pass or a check waiting in the queue
InitUpdate ==
  /\ spine = NSections
  /\ Mounted
  /\ settings \in WindowSettings
  /\ writingMode = "horizontal"
  /\ layout = WindowLayout
  /\ isPaginated = (settings.axis = "horizontal")
  /\ broken \in { b \in SUBSET Sections : Cardinality(b) <= MaxBroken + 1 }
  /\ \E a \in Sections, b \in Sections, D \in SUBSET Sections :
       /\ a <= b /\ D \subseteq (a .. b) \ broken
       /\ views = WindowWith(a, b, D, broken)
  /\ \E p \in ScrollRange :
       IF Horizontal THEN cLeft = p /\ cTop = 0 ELSE cTop = p /\ cLeft = 0
  /\ scrollTop = Tracked(cTop) /\ scrollLeft = Tracked(cLeft)
  /\ ignore = FALSE
  /\ sigPending = FALSE /\ scrolledPending = FALSE /\ afterScrolled = FALSE
  /\ trimTimeout = FALSE
  /\ q \in { << Task("update", 0, FALSE) >>, << Task("check", 0, FALSE) >> }
  /\ run = Idle
  /\ inflight = {}
  /\ fillActive = FALSE /\ fillGrown = 0
  /\ last = NoOp /\ navHist = NoNav /\ probe = NoProbe

NextUpdate ==
  \/ RunCheck
  \/ \E s \in Sections : GrowSettle(s)
  \/ \E s \in Sections : UpdSettle(s)
  \/ \E d \in inflight : OrphanSettle(d)
  \/ RunUpdate
  \/ RunDestroy

SpecUpdate == InitUpdate /\ [][NextUpdate]_vars

\* ------------------------------------------------------------------ teardown
\* removeEventListeners() reads this.container unless settings.fullsize is set
RemoveThrows == ~settings.fullsize /\ ~rendered

\* removeEventListeners(): the scroll listener is taken off the scroll owner
RemoveEventListeners == listening' = FALSE

\* the base manager's destroy(), apart from its call of removeEventListeners():
\* it releases what the base manager holds, cancelling the afterScrolled timer
\* and emptying the window
BaseDestroy == views' = << >> /\ afterScrolled' = FALSE

\* destroy(): super.destroy(), then the snapper is destroyed if there is one
\* (and stays referenced)
Destroy ==
  /\ teardown.calls < MaxDestroy
  /\ IF RemoveThrows
     THEN /\ teardown' = [teardown EXCEPT !.calls = @ + 1, !.threw = TRUE]
          /\ UNCHANGED << views, afterScrolled, listening, snapper >>
     ELSE /\ BaseDestroy
          /\ RemoveEventListeners
          /\ snapper' = IF snapper = "none" THEN "none" ELSE "destroyed"
          /\ teardown' = [teardown EXCEPT !.calls = @ + 1, !.returned = @ + 1,
                                           !.snaps = @ + (IF snapper = "none" THEN 0 ELSE 1)]
  /\ last' = NoOp /\ navHist' = NoNav
  /\ UNCHANGED << ctor, wait, rendered, scrollTimeout, spine, settings, writingMode, layout, isPaginated,
                  broken, cTop, cLeft, scrollTop, scrollLeft, ignore, sigPending,
                  scrolledPending, trimTimeout, q, run, inflight, fillActive, fillGrown, probe >>

\* a manager that was never rendered, or one that was rendered (with or
\* without a snapper) and holds a window, with the trim timer armed or not
InitTeardown ==
  /\ spine = NSections
  /\ settings \in AllSettings
  /\ writingMode = "horizontal"
  /\ layout = WindowLayout
  /\ isPaginated = (settings.axis = "horizontal")
  /\ broken = {}
  /\ rendered \in BOOLEAN
  /\ listening = rendered
  /\ snapper \in (IF rendered /\ isPaginated THEN {"none", "live"} ELSE {"none"})
  /\ views \in (IF rendered THEN EraseWindows \ { << >> } ELSE { << >> })
  /\ trimTimeout \in (IF rendered THEN BOOLEAN ELSE {FALSE})
  /\ scrollTimeout = FALSE
  /\ teardown = NoTeardown
  /\ wait = NoWait
  /\ ctor = Built
  /\ cTop = 0 /\ cLeft = 0
  /\ scrollTop = 0 /\ scrollLeft = 0
  /\ ignore = FALSE
  /\ sigPending = FALSE /\ scrolledPending = FALSE /\ afterScrolled = FALSE
  /\ q = << >>
  /\ run = Idle
  /\ inflight = {}
  /\ fillActive = FALSE /\ fillGrown = 0
  /\ last = NoOp /\ navHist = NoNav /\ probe = NoProbe

NextTeardown ==
  \/ Destroy
  \/ \E p \in ScrollRange : rendered /\ UserScroll(p)
  \/ OnScroll
  \/ Scrolled
  \/ AfterScrolledFire
  \/ ScrollTimeoutFire
  \/ TrimTimerFire

SpecTeardown == InitTeardown /\ [][NextTeardown]_vars

\* ------------------------------------------------------------ construction
\* extend(target, source): the options that are given are copied over the
\* target; whether a given 0 is copied is left open (zeros)
Extend(target, source, zeros) ==
  [k \in DOMAIN target |->
     IF source[k] = Unset \/ (source[k] = 0 /\ ~zeros) THEN target[k] ELSE source[k]]

\* a faulty variant of the constructor's closing test: gap is left as it is
GapKeptNot(sets, opts) == sets

\* the constructor: if (options.settings.gap != 'undefined' &&
\* options.settings.gap === 0) this.settings.gap = options.settings.gap
GapKept(sets, opts) == IF opts.gap = 0 THEN [sets EXCEPT !.gap = opts.gap] ELSE sets

\* the values an option is given in construction
OptionValues == {Unset, 0, 1, Px}

\* the constructor is about to run with any options, with options.settings
\* given or not
InitCtor ==
  /\ spine = NSections
  /\ settings \in WindowSettings
  /\ writingMode = "horizontal"
  /\ layout = WindowLayout
  /\ isPaginated = (settings.axis = "horizontal")
  /\ broken = {}
  /\ rendered = FALSE /\ listening = FALSE /\ snapper = "none"
  /\ scrollTimeout = FALSE
  /\ teardown = NoTeardown
  /\ wait = NoWait
  /\ \E o \in [DOMAIN CtorDefaults -> OptionValues], g \in BOOLEAN, z \in BOOLEAN :
       /\ ~g => o = [k \in DOMAIN CtorDefaults |-> Unset]
       /\ ctor = [done |-> FALSE, given |-> g, zeros |-> z, threw |-> FALSE,
                  opts |-> o, settings |-> [k \in DOMAIN CtorDefaults |-> Unset]]
  /\ views = << >>
  /\ cTop = 0 /\ cLeft = 0
  /\ scrollTop = 0 /\ scrollLeft = 0
  /\ sigPending = FALSE /\ trimTimeout = FALSE
  /\ Quiet

\* the constructor: the defaults, the options over them, then the gap test,
\* which reads options.settings.gap whether options.settings is given or not
Construct ==
  /\ ~ctor.done
  /\ LET base == Extend(CtorDefaults, ctor.opts, ctor.zeros)
     IN  ctor' = [ctor EXCEPT !.done = TRUE,
                              !.threw = ~ctor.given,
                              !.settings = IF ctor.given THEN GapKept(base, ctor.opts) ELSE base]
  /\ last' = NoOp /\ navHist' = NoNav
  /\ UNCHANGED << wait, rendered, listening, snapper, teardown, scrollTimeout, spine, settings,
                  writingMode, layout, isPaginated, broken, views, cTop, cLeft, scrollTop,
                  scrollLeft, ignore, sigPending, scrolledPending, afterScrolled, trimTimeout,
                  q, run, inflight, fillActive, fillGrown, probe >>

NextCtor == Construct

SpecCtor == InitCtor /\ [][NextCtor]_vars

\* ------------------------------------------------------- scrolling in time
\* a manager holding every section, with or without a snapper, at rest; the
\* reader scrolls and pages forward while time passes
InitTime ==
  /\ spine = NSections
  /\ settings \in WindowSettings
  /\ writingMode = "horizontal"
  /\ layout = WindowLayout
  /\ isPaginated = (settings.axis = "horizontal")
  /\ broken = {}
  /\ rendered = TRUE /\ listening = TRUE
  /\ snapper \in (IF isPaginated THEN {"none", "live"} ELSE {"none"})
  /\ scrollTimeout = FALSE
  /\ teardown = NoTeardown
  /\ wait = NoWait
  /\ ctor = Built
  /\ views = WindowOf(1, spine, Sections)
  /\ cTop = 0 /\ cLeft = 0
  /\ scrollTop = 0 /\ scrollLeft = 0
  /\ sigPending = FALSE /\ trimTimeout = FALSE
  /\ Quiet

NextTime ==
  \/ Tick
  \/ \E p \in ScrollRange : UserScroll(p)
  \/ NextOp
  \/ OnScrollAt
  \/ ScrolledAt
  \/ AfterScrolledAt

SpecTime == InitTime /\ [][NextTime]_vars

\* --------------------------------------------------- the navigation alone
\* the layouts a navigation step is computed from
NavLayouts ==
  { [name |-> n, spread |-> sp, delta |-> d, height |-> h] :
      n \in {"reflowable", "pre-paginated"}, sp \in BOOLEAN,
      d \in {Px, 2 * Px}, h \in {Px, Px + 1} }

\* a manager with any layout, paginated or not, holding every section or none
InitNav ==
  /\ spine = NSections
  /\ Mounted
  /\ settings \in WindowSettings
  /\ writingMode = "horizontal"
  /\ layout \in NavLayouts
  /\ isPaginated \in BOOLEAN
  /\ broken = {}
  /\ views \in { << >>, WindowOf(1, spine, Sections) }
  /\ \E p \in ScrollRange :
       IF Horizontal THEN cLeft = p /\ cTop = 0 ELSE cTop = p /\ cLeft = 0
  /\ scrollTop = cTop /\ scrollLeft = cLeft
  /\ sigPending = FALSE /\ trimTimeout = FALSE
  /\ Quiet

NextNav == NextOp \/ PrevOp \/ OnScroll

SpecNav == InitNav /\ [][NextNav]_vars

\* ------------------------------------------------------------ properties
MinOf(S) == CHOOSE x \in S : \A y \in S : x <= y

MaxOf(S) == CHOOSE x \in S : \A y \in S : x >= y

\* the positions of the displayed views, and of the shown views
DisplayedIdx == { i \in 1 .. Len(views) : views[i].displayed }

ShownIdx == { i \in 1 .. Len(views) : views[i].shown }

\* nothing is pending: no task queued or running, no display unsettled, no
\* timer armed, no scroll signal on its way
Settled == Load = 0

\* C1: in every state the sections of the views in the window form a contiguous
\* run in document order: each view's section directly follows the section of
\* the view before it, so there is no gap and no section appears twice.
C1_Contiguity ==
  \A i \in 1 .. Len(views) - 1 : views[i + 1].sec = views[i].sec + 1

\* a trim has just erased views of a window that check passes had grown
C1_Witness == last.op = "trim" /\ last.n + last.m > 0 /\ Len(views) >= 2

\* C2: even with no section failing to render, no queued task is started while
\* a display begun by an earlier queued task is still unsettled.
C2_Serialized == broken = {} => ~last.busy

C4_DisplayedBound ==
  last.op = "trim" /\ DisplayedIdx # {} =>
    /\ MinOf(DisplayedIdx) - 1 <= 1
    /\ Len(views) - MaxOf(DisplayedIdx) <= 1

\* a trim has just erased a view around a displayed range
C4_Witness == last.op = "trim" /\ last.n + last.m > 0 /\ DisplayedIdx # {}

\* C4 (as stated): right after a trim, at most one view that is not shown
\* stands before the first shown view and at most one after the last shown view.
C4_ShownBound ==
  last.op = "trim" /\ ShownIdx # {} =>
    /\ MinOf(ShownIdx) - 1 <= 1
    /\ Len(views) - MaxOf(ShownIdx) <= 1

C6_Visibility ==
  Settled /\ broken = {} =>
    \A i \in 1 .. Len(views) :
      views[i].shown <=> IsVisible(views, i, CheckDelta, LiveOffset)

RtlNegative == settings.direction = "rtl" /\ settings.rtlScrollType = "negative"

\* C8 (as the code has it): under rtl with the negative policy the offset
\* check() computes is the negation of the offset the same raw position gives
\* under ltr when the scroll owner is a container and the writing mode is
\* horizontal, or when the scroll owner is the whole viewport and the axis is
\* horizontal; in every other case it equals the ltr offset.
C8_SignLaw ==
  probe.done /\ RtlNegative =>
    probe.out = IF (IF settings.fullsize THEN Horizontal ELSE writingMode = "horizontal")
                THEN 0 - probe.ltr
                ELSE probe.ltr

\* the offset of a position other than 0 was computed under rtl, negative
\* policy, for the whole viewport on the horizontal axis
C8_Witness ==
  probe.done /\ RtlNegative /\ settings.fullsize /\ Horizontal /\ probe.raw # 0

\* C8 (as stated): under rtl with the negative policy the offset is the negation
\* of the ltr offset for every fullsize, axis and writing mode.
C8_SignLawAll == probe.done /\ RtlNegative => probe.out = 0 - probe.ltr

\* C9 (as the code has it): the offset check() computes from the raw offset it
\* reads is contentLength - visibleLength - raw for container + rtl + default +
\* horizontal writing mode; -raw for container + rtl + negative + horizontal
\* writing mode, for viewport + rtl + negative on the horizontal axis and for
\* viewport + rtl + default on the vertical axis; and raw in every other case.
C9_RuleTable ==
  probe.done =>
    LET rtl == settings.direction = "rtl"
        policy == settings.rtlScrollType
    IN  probe.out =
          IF ~settings.fullsize /\ rtl /\ policy = "default" /\ writingMode = "horizontal"
          THEN ContentLength - VisibleLength - probe.raw
          ELSE IF ~settings.fullsize /\ rtl /\ policy = "negative" /\ writingMode = "horizontal"
          THEN 0 - probe.raw
          ELSE IF settings.fullsize /\ rtl /\ policy = "negative" /\ Horizontal
          THEN 0 - probe.raw
          ELSE IF settings.fullsize /\ rtl /\ policy = "default" /\ ~Horizontal
          THEN 0 - probe.raw
          ELSE probe.raw

\* the offset was computed by the subtract-from-content rule
C9_Witness ==
  /\ probe.done /\ ~settings.fullsize /\ settings.direction = "rtl"
  /\ settings.rtlScrollType = "default" /\ writingMode = "horizontal"
  /\ probe.out # probe.raw /\ probe.out # 0 - probe.raw

\* C9 (as stated): contentLength - visibleLength - raw for container + rtl +
\* default + horizontal; -raw for container + rtl + negative + horizontal and for
\* viewport + rtl + negative; raw in every other case.
C9_StatedTable ==
  probe.done =>
    LET rtl == settings.direction = "rtl"
        policy == settings.rtlScrollType
    IN  probe.out =
          IF ~settings.fullsize /\ rtl /\ policy = "default" /\ writingMode = "horizontal"
          THEN ContentLength - VisibleLength - probe.raw
          ELSE IF ~settings.fullsize /\ rtl /\ policy = "negative" /\ writingMode = "horizontal"
          THEN 0 - probe.raw
          ELSE IF settings.fullsize /\ rtl /\ policy = "negative"
          THEN 0 - probe.raw
          ELSE probe.raw

\* C10: with no section failing to render, the check of a fill() resolves with
\* a value that is not true, whether or not it added views, so fill() enqueues
\* no further check.
C10_ResolvesFalse ==
  broken = {} /\ last.fill => ~Truthy(last.res) /\ ~last.refill

\* the window a check pass started from: the window without the views it added
BeforePass ==
  LET lo == IF last.pre # 0 THEN 2 ELSE 1
      hi == IF last.app # 0 THEN Len(views) - 1 ELSE Len(views)
  IN  [i \in 1 .. (hi - lo + 1) |-> views[lo + i - 1]]

\* C11: a check pass appends a view exactly when offset + visibleLength +
\* margin >= contentLength and the last view's section has a next section, and
\* then for that section; it prepends a view exactly when offset - margin < 0
\* and the first view's section has a previous section, and then for that
\* section; it adds at most one view per end and none when neither holds.
C11_GrowthRule ==
  last.op = "check" =>
    LET vs == BeforePass
        offset == CheckOffsetOf(vs)
        next == IF vs # << >> THEN SectionNext(vs[Len(vs)].sec) ELSE 0
        prev == IF vs # << >> THEN SectionPrev(vs[1].sec) ELSE 0
        wantApp == offset + VisibleLength + CheckDelta >= SumBounds(vs) /\ next # 0
        wantPre == offset - CheckDelta < 0 /\ prev # 0
    IN  /\ (last.app # 0) = wantApp
        /\ (last.pre # 0) = wantPre
        /\ last.app # 0 => last.app = next /\ views[Len(views)].sec = next
        /\ last.pre # 0 => last.pre = prev /\ views[1].sec = prev
        /\ Len(views) = Len(vs) + (IF wantApp THEN 1 ELSE 0) + (IF wantPre THEN 1 ELSE 0)
        /\ last.n = Len(views) - Len(vs)

\* a check pass has added a view at each end of the window
C11_Witness == last.op = "check" /\ last.app # 0 /\ last.pre # 0 /\ Len(views) = 3
\* the displays update() has started and not seen settle
PassDisplays == { d \in inflight : d.own \in {"upd", "orphanUpd"} }

\* C12: when a display started by a visibility pass settles, its view ends
\* not displayed and not shown if the render failed, displayed and shown if it
\* succeeded; the other displays of the pass (of views still in the window)
\* stay in flight, whatever the outcome; and the promise of update() or
\* check() never rejects.
C12_Isolation ==
  [][ /\ \A d \in PassDisplays \ inflight' :
           /\ \A i \in 1 .. Len(views') :
                views'[i].sec = d.sec =>
                  /\ views'[i].displayed = (d.sec \notin broken)
                  /\ views'[i].shown = (d.sec \notin broken)
           /\ \A e \in PassDisplays \ {d} :
                IndexOfSec(views', e.sec, 1) # 0 /\ IndexOfSec(views', d.sec, 1) # 0
                  => e \in inflight'
      /\ last'.res \in {"-", "false", "undefined", "array", "err"}
    ]_vars

\* one display of a pass has failed and left its view hidden while a sibling
\* of the same pass is still rendering
C12_Witness ==
  /\ \E d \in inflight : d.own = "orphanUpd" /\ d.sec \notin broken
  /\ \E i \in 1 .. Len(views) :
       /\ views[i].sec \in broken /\ ~views[i].shown /\ ~views[i].displayed
       /\ \A d \in inflight : d.sec # views[i].sec
       /\ IsVisible(views, i, CheckDelta, LiveOffset)
\* C13: once a destroy() has returned, no timer of the manager fires, no
\* trim or check is enqueued, no SCROLL or SCROLLED event is emitted, and the
\* scroll listener is not registered.
C13_Cancelled ==
  [][ teardown.returned > 0 /\ teardown' = teardown =>
        /\ trimTimeout' = trimTimeout /\ scrolledPending' = scrolledPending
        /\ scrollTimeout' = scrollTimeout /\ afterScrolled' = afterScrolled
        /\ q' = q
        /\ last'.op \notin {"SCROLL", "SCROLLED"}
        /\ ~listening'
    ]_vars

\* C14: no destroy() call throws, and the snapper is destroyed at most once
\* however often destroy() is called.
C14_Idempotent == ~teardown.threw /\ teardown.snaps <= 1
\* the raw position a next() or prev() call started from, moved by (x, y)
NavFrom(x, y) == cLeft = last.pos + x /\ cTop = last.cross + y

\* C15: right after next() or prev() on an empty window the scroll position
\* and the queue are what they were before the call; on a window that is not
\* empty the position has moved by one step (the layout's delta, doubled for a
\* pre-paginated spread, along a paginated horizontal axis, the layout's
\* height otherwise; forward for next(), backward for prev()) and the queue
\* has grown by exactly one task, a check.
C15_NavContract ==
  last.op \in {"next", "prev"} =>
    LET sign == IF last.op = "next" THEN 1 ELSE 0 - 1
        width == IF layout.name = "pre-paginated" /\ layout.spread
                 THEN 2 * layout.delta ELSE layout.delta
    IN  IF Len(views) = 0
        THEN NavFrom(0, 0) /\ Len(q) = last.n
        ELSE /\ IF isPaginated /\ settings.axis = "horizontal"
                THEN NavFrom(sign * width, 0)
                ELSE NavFrom(0, sign * layout.height)
             /\ Len(q) = last.n + 1
             /\ q[Len(q)].op = "check"

\* prev() has just been called on an empty window
C15_Witness == last.op = "prev" /\ Len(views) = 0 /\ isPaginated
\* the sections of a window, in order
SecsOf(vs) == [i \in 1 .. Len(vs) |-> vs[i].sec]

\* this step handles a scroll signal: onScroll() takes the raw signal, or the
\* debounce fires and scrolled() runs
ScrollHandled ==
  \/ sigPending /\ ~sigPending'
  \/ scrolledPending /\ ~scrolledPending'

\* this step belongs to a task of the queue: the task the queue is running
\* goes on, or the queue starts the task at its head
QueueStep ==
  \/ run.op # "none"
  \/ q # << >> /\ last'.op = Head(q).op

\* C16: a step that handles a scroll signal leaves the window and the displays
\* in flight as they are and leaves the queue as it is or with one more check
\* at its end; and every step that changes which sections the window holds
\* belongs to a task run by the queue.
C16_NoDirectMutation ==
  [][ /\ ScrollHandled =>
           /\ views' = views /\ inflight' = inflight /\ run' = run
           /\ q' \in {q, Append(q, Task("check", 0, FALSE))}
      /\ SecsOf(views') # SecsOf(views) => QueueStep /\ ~ScrollHandled
    ]_vars

\* scrolled() has just enqueued a check while the queue is in the middle of a
\* task that is growing the window
C16_Witness ==
  /\ last.op = "SCROLL" /\ run.op = "check" /\ inflight # {}
  /\ Len(q) > 0 /\ q[Len(q)].op = "check"
\* SCROLL has just been emitted with the position tracked at the last signal
\* and a check has been enqueued with it
NotifiedNow ==
  /\ last.op = "SCROLL"
  /\ last.pos = Tracked(wait.rawLeft) /\ last.cross = Tracked(wait.rawTop)
  /\ q # << >> /\ q[Len(q)].op = "check"

\* C17 (as stated): while less than 30 units have passed since the last raw
\* scroll signal the one notification of its burst is still to come, after
\* more than 30 units none is to come, and a notification is made exactly 30
\* units after the last signal, with one check and a SCROLL event carrying the
\* position of that signal.
C17_Debounce ==
  /\ wait.sig < DebounceWait => scrolledPending
  /\ wait.sig > DebounceWait => ~scrolledPending
  /\ last.op = "SCROLL" => NotifiedNow /\ wait.sig = DebounceWait

\* C17 (as the code has it): the same, counted from the last signal that was
\* handled while this.ignore was not set.
C17_DebounceLive ==
  /\ wait.live < DebounceWait => scrolledPending /\ wait.scrolled = DebounceWait - wait.live
  /\ wait.live > DebounceWait => ~scrolledPending
  /\ last.op = "SCROLL" => NotifiedNow /\ wait.live = DebounceWait

\* the notification of a burst of two or more signals has just been made
C17_Witness == last.op = "SCROLL" /\ wait.burst >= 2 /\ wait.live = DebounceWait

\* C18: SCROLLED is emitted only afterScrolledTimeout units after a scrolled
\* notification, with no raw scroll signal handled since that notification, and
\* never when a touch-capable snapper says it still has to snap.
C18_Settled ==
  last.op = "SCROLLED" =>
    /\ wait.noted = AfterScrolledTimeout
    /\ wait.sig >= wait.noted
    /\ ~(snapper # "none" /\ last.busy)

\* SCROLLED has just been emitted by a manager that has a snapper
C18_Witness == last.op = "SCROLLED" /\ snapper = "live" /\ wait.noted = AfterScrolledTimeout
\* the trim tasks waiting in a queue
TrimTasks(queue) == { i \in 1 .. Len(queue) : queue[i].op = "trim" }

\* the eviction scans that are pending: the armed trim timer and the trim
\* tasks waiting in the queue
PendingScans == (IF trimTimeout THEN 1 ELSE 0) + Cardinality(TrimTasks(q))

\* C19: a step that arms the trim timer (a visibility pass that hides a view)
\* erases no view and enqueues no trim; a trim task enters the queue only when
\* the armed trim timer fires; and at most one eviction scan is pending at any
\* time, counting the armed timer and the trim tasks waiting in the queue.
C19_SingleScan ==
  [][ /\ ~trimTimeout /\ trimTimeout' =>
           SecsOf(views') = SecsOf(views) /\ Cardinality(TrimTasks(q')) <= Cardinality(TrimTasks(q))
      /\ Cardinality(TrimTasks(q')) > Cardinality(TrimTasks(q)) => trimTimeout /\ ~trimTimeout'
      /\ PendingScans' <= 1
    ]_vars
\* C20: after a constructor that was given options.settings, settings.gap is 0
\* when the gap option was 0, and it is not 0 (it is undefined) when no gap
\* option was given.
C20_GapZero ==
  ctor.done /\ ~ctor.threw =>
    /\ ctor.opts.gap = 0 => ctor.settings.gap = 0
    /\ ctor.opts.gap = Unset => ctor.settings.gap = Unset

\* the constructor has kept a gap of 0 that extend() had not copied
C20_Witness ==
  ctor.done /\ ~ctor.threw /\ ctor.opts.gap = 0 /\ ~ctor.zeros /\ ctor.settings.gap = 0
\* ------------------------------------------------- Navigation: toc lookup
\* strings are sequences of character codes; Hash is the code of '#'
Hash == 0

MaxItems == 3
MaxDepth == 3

ItemKeys == 1 .. MaxItems

\* the id and the href of item k of a table of contents: pairwise distinct
IdOf(k) == << k >>
HrefOf(k) == << k, k >>

NavItem(k, subitems) == [id |-> IdOf(k), href |-> HrefOf(k), subitems |-> subitems]

\* the value of a lookup that found nothing (undefined)
NoItem == [id |-> << >>, href |-> << >>, subitems |-> << >>]

RECURSIVE KeysOf(_)
\* the items of a list at every depth, by key
KeysOf(toc) ==
  UNION { { toc[i].id[1] } \cup KeysOf(toc[i].subitems) : i \in 1 .. Len(toc) }

RECURSIVE ItemsOf(_)
\* the items of a list at every depth
ItemsOf(toc) ==
  UNION { { toc[i] } \cup ItemsOf(toc[i].subitems) : i \in 1 .. Len(toc) }

RECURSIVE Tocs(_, _)
\* every table of contents over the items S nested at most d deep
Tocs(S, d) ==
  IF d = 0 \/ S = {} THEN { << >> }
  ELSE { << >> } \cup
       UNION { UNION { { << NavItem(k, sub) >> \o rest :
                           rest \in Tocs(S \ ({k} \cup KeysOf(sub)), d) } :
                       sub \in Tocs(S \ {k}, d - 1) } :
               k \in S }

\* an index table with key k set to v
Put(table, k, v) == [x \in DOMAIN table \cup {k} |-> IF x = k THEN v ELSE table[x]]

NoTables == [tocByHref |-> << >>, tocById |-> << >>]

RECURSIVE Unpack(_, _, _)
\* unpack(toc) from item i on: each item's position in its own list, recorded
\* under its href and under its id; positions count from 0
Unpack(tables, toc, i) ==
  IF i > Len(toc) THEN tables
  ELSE LET item == toc[i]
           t1 == IF item.href # << >>
                 THEN [tables EXCEPT !.tocByHref = Put(tables.tocByHref, item.href, i - 1)]
                 ELSE tables
           t2 == IF item.id # << >>
                 THEN [t1 EXCEPT !.tocById = Put(t1.tocById, item.id, i - 1)]
                 ELSE t1
           t3 == IF Len(item.subitems) # 0 THEN Unpack(t2, item.subitems, 1) ELSE t2
       IN  Unpack(t3, toc, i + 1)

\* the item a list holds at a position, undefined outside the list
AtIndex(navItems, index) ==
  IF index + 1 \in 1 .. Len(navItems) THEN navItems[index + 1] ELSE NoItem

RECURSIVE FirstFound(_, _, _, _)
RECURSIVE GetByIndex(_, _, _)
\* the loop of getByIndex over the sub-lists: the first result that is an item
FirstFound(target, index, navItems, i) ==
  IF i > Len(navItems) THEN NoItem
  ELSE LET result == GetByIndex(target, index, navItems[i].subitems)
       IN  IF result # NoItem THEN result
           ELSE FirstFound(target, index, navItems, i + 1)

\* getByIndex(target, index, navItems)
GetByIndex(target, index, navItems) ==
  IF Len(navItems) = 0 THEN NoItem
  ELSE LET item == AtIndex(navItems, index)
       IN  IF item # NoItem /\ (target = item.id \/ target = item.href) THEN item
           ELSE FirstFound(target, index, navItems, 1)

\* get(target): the whole list for no target, else the item found
Get(toc, target) ==
  LET tables == Unpack(NoTables, toc, 1)
      index ==
        IF target # << >> /\ target[1] = Hash
        THEN IF Tail(target) \in DOMAIN tables.tocById
             THEN tables.tocById[Tail(target)] ELSE Unset
        ELSE IF target \in DOMAIN tables.tocByHref
             THEN tables.tocByHref[target] ELSE Unset
  IN  IF target = << >> THEN [list |-> TRUE, toc |-> toc, item |-> NoItem]
      ELSE [list |-> FALSE, toc |-> << >>, item |-> GetByIndex(target, index, toc)]

\* the targets asked for: none, every href, every '#' + id, every bare id
Targets ==
  { << >> } \cup { HrefOf(k) : k \in ItemKeys } \cup { << Hash >> \o IdOf(k) : k \in ItemKeys }
  \cup { IdOf(k) : k \in ItemKeys }

\* a navigation over any table of contents, about to be asked for any target
InitToc ==
  /\ spine = NSections
  /\ Mounted
  /\ settings = [axis |-> "vertical", direction |-> "ltr", fullsize |-> FALSE,
                  rtlScrollType |-> "none", offset |-> 1]
  /\ writingMode = "horizontal"
  /\ layout = WindowLayout
  /\ isPaginated = FALSE
  /\ broken = {}
  /\ views = << >>
  /\ cTop = 0 /\ cLeft = 0
  /\ scrollTop = 0 /\ scrollLeft = 0
  /\ sigPending = FALSE /\ trimTimeout = FALSE
  /\ ignore = FALSE /\ scrolledPending = FALSE /\ afterScrolled = FALSE
  /\ q = << >> /\ run = Idle /\ inflight = {}
  /\ fillActive = FALSE /\ fillGrown = 0
  /\ last = NoOp /\ navHist = NoNav
  /\ probe \in { [done |-> FALSE, toc |-> toc, target |-> target, out |-> Get(<< >>, << >>)] :
                   toc \in Tocs(ItemKeys, MaxDepth), target \in Targets }

\* one call of get(target)
NavGet ==
  /\ ~probe.done
  /\ probe' = [probe EXCEPT !.done = TRUE, !.out = Get(probe.toc, probe.target)]
  /\ UNCHANGED << mount, wait, scrollTimeout, spine, settings, writingMode, layout, isPaginated, broken, views, cTop, cLeft,
                  scrollTop, scrollLeft, ignore, sigPending, scrolledPending, afterScrolled,
                  trimTimeout, q, run, inflight, fillActive, fillGrown, last, navHist >>

NextToc == NavGet

SpecToc == InitToc /\ [][NextToc]_vars

\* C21: after get(target) on a table of contents with pairwise distinct ids and
\* hrefs, the result is the whole top-level list when no target was given, and
\* it is the item when the target is the href of an item at any depth or '#'
\* followed by the id of an item at any depth.
C21_GetFinds ==
  probe.done =>
    /\ probe.target = << >> => probe.out.list /\ probe.out.toc = probe.toc
    /\ \A it \in ItemsOf(probe.toc) :
         /\ probe.target = it.href => ~probe.out.list /\ probe.out.item = it
         /\ probe.target = << Hash >> \o it.id => ~probe.out.list /\ probe.out.item = it
\* the step a next() or prev() that has just run on a window with views has
\* applied is (x, y), forward for next() and backward for prev()
NavStepIs(x, y) ==
  IF last.op = "next" THEN NavFrom(x, y) ELSE NavFrom(0 - x, 0 - y)

\* next() or prev() has just run on a window that holds views
NavStepped == last.op \in {"next", "prev"} /\ Len(views) # 0

\* C22 (as stated): the step next() and prev() apply along a paginated
\* horizontal axis is the layout's delta, doubled for every layout that reports
\* spread mode; in every other case it is one layout height along the vertical
\* axis; next() moves forward and prev() backward.
C22_StepLength ==
  NavStepped =>
    IF isPaginated /\ settings.axis = "horizontal"
    THEN NavStepIs(IF layout.spread THEN 2 * layout.delta ELSE layout.delta, 0)
    ELSE NavStepIs(0, layout.height)

\* C22 (as the code has it): the step next() and prev() apply along a paginated
\* horizontal axis is the layout's delta, doubled only when the layout is
\* pre-paginated and reports spread mode; in every other case it is one layout
\* height along the vertical axis; next() moves forward and prev() backward.
C22_StepLengthPrePaginated ==
  NavStepped =>
    IF isPaginated /\ settings.axis = "horizontal"
    THEN NavStepIs(IF layout.name = "pre-paginated" /\ layout.spread
                   THEN 2 * layout.delta ELSE layout.delta, 0)
    ELSE NavStepIs(0, layout.height)

\* next() has just stepped a reflowable layout in spread mode along a
\* paginated horizontal axis
C22_Witness ==
  /\ NavStepped /\ last.op = "next"
  /\ isPaginated /\ settings.axis = "horizontal"
  /\ layout.name = "reflowable" /\ layout.spread
\* this step is the trim task: the queue starts the trim at its head
TrimStep ==
  run.op = "none" /\ q # << >> /\ Head(q).op = "trim" /\ Len(q') < Len(q) /\ last'.op = "trim"

\* the sections a window holds
SecSet(vs) == { vs[i].sec : i \in 1 .. Len(vs) }

\* C23: a trim of a window that holds a displayed view only takes views out,
\* it reorders none; every view from the first displayed view to the last
\* displayed view, displayed or not, is still in the window after it; and every
\* view it removed stood strictly before the first displayed view or strictly
\* after the last displayed view.
C23_RangeKept ==
  [][ TrimStep /\ DisplayedIdx # {} =>
        LET first == MinOf(DisplayedIdx)
            lastIdx == MaxOf(DisplayedIdx)
        IN  /\ views' = SelectSeq(views, LAMBDA v : v.sec \in SecSet(views'))
            /\ \A i \in first .. lastIdx : views[i] \in { views'[j] : j \in 1 .. Len(views') }
            /\ \A i \in 1 .. Len(views) :
                 views[i].sec \notin SecSet(views') => i < first \/ i > lastIdx
    ]_vars

\* a trim has just erased a view next to a displayed range that holds a view
\* that is not displayed
C23_Witness ==
  /\ last.op = "trim" /\ last.n + last.m > 0
  /\ DisplayedIdx # {}
  /\ \E i \in MinOf(DisplayedIdx) .. MaxOf(DisplayedIdx) : ~views[i].displayed

\* C24: a trim of a window that holds at least one view leaves at least one
\* view in it, whether or not a view of the window is displayed.
C24_NeverEmpty ==
  [][ TrimStep /\ Len(views) > 0 => Len(views') > 0 ]_vars
\* the raw coordinate of the axis the manager does not scroll along
CrossPos == IF Horizontal THEN cTop ELSE cLeft

\* C25: a trim of a window that holds a displayed view, when it erased no view
\* above the displayed range, assigns no scroll position (neither raw
\* coordinate changes and the ignore flag is not set by it); when it erased a
\* view above the range, it leaves the raw coordinate of the other axis what
\* it was before the trim.
C25_ScrollFrame ==
  [][ TrimStep /\ DisplayedIdx # {} =>
        /\ last'.n = 0 => cTop' = cTop /\ cLeft' = cLeft /\ ignore' = ignore
        /\ last'.n > 0 => CrossPos' = CrossPos
    ]_vars
\* this step handles a raw scroll signal: onScroll() runs
SignalStep == sigPending /\ ~sigPending'

\* this step is a next() or prev() that scrolls silently: it sets the ignore
\* flag and enqueues its check
SilentStep == last'.op \in {"next", "prev"} /\ Len(q') = Len(q) + 1

\* what onScroll() does with a signal, by the ignore flag it finds
SignalLaw ==
  SignalStep =>
    /\ scrollTop' = Tracked(cTop) /\ scrollLeft' = Tracked(cLeft)
    /\ ~ignore'
    /\ q' = q
    /\ ignore => scrolledPending' = scrolledPending /\ wait'.scrolled = wait.scrolled
    /\ ~ignore => scrolledPending' /\ wait'.scrolled = DebounceWait

\* C26 (as stated): a raw scroll signal handled while the ignore flag is set
\* updates the tracked position, schedules no scrolled notification, enqueues
\* no check and clears the flag; a signal handled while the flag is clear does
\* schedule a notification; and every setting of the flag suppresses a signal
\* of its own, so the flag is never set while it is still set.
C26_OnePerSetting ==
  [][ /\ SignalLaw
      /\ SilentStep => ~ignore ]_vars

\* C26 (as the code has it): a raw scroll signal handled while the ignore flag
\* is set updates the tracked position, schedules no scrolled notification,
\* enqueues no check and clears the flag; a signal handled while the flag is
\* clear does schedule a notification. The flag being set suppresses exactly the
\* next signal handled, however often it was set since the last one.
C26_IgnoreOnce ==
  [][ SignalLaw ]_vars

\* the one signal of two next() calls has just been suppressed: it moved the
\* tracked position, cleared the flag and scheduled nothing
C26_Witness ==
  /\ wait.sig = 0 /\ wait.live # 0
  /\ Len(q) = 2
  /\ ~ignore /\ ~sigPending /\ ~scrolledPending
  /\ cLeft + cTop > 0 /\ scrollLeft = Tracked(cLeft) /\ scrollTop = Tracked(cTop)
\* --------------------------------------------- PageList: pages and locations
MaxPages == 3

\* an item of a page list carries no cfi
NoCfi == 0

\* the -1 the lookups return, and the undefined an array gives past its end
NotFound == 0 - 1

Undefined == 0 - 2

PageItem(page, cfi) == [page |-> page, cfi |-> cfi]

\* the arrangements of the page numbers S, in any order
RECURSIVE Arrangements(_)
Arrangements(S) ==
  { << >> } \cup UNION { { << p >> \o rest : rest \in Arrangements(S \ {p}) } : p \in S }

\* every page list with pairwise distinct page numbers; the item at position i
\* carries the cfi i, cfis being told apart and ordered by their place in the
\* document, or no cfi
PageLists ==
  UNION { { [i \in 1 .. Len(ps) |-> PageItem(ps[i], IF i \in C THEN i ELSE NoCfi)] :
              C \in SUBSET (1 .. Len(ps)) } :
          ps \in Arrangements(1 .. MaxPages) }

RECURSIVE PagesOf(_)
\* process(): this.pages, one page per item
PagesOf(list) ==
  IF list = << >> THEN << >> ELSE << Head(list).page >> \o PagesOf(Tail(list))

RECURSIVE LocationsOf(_)
\* process(): this.locations, one cfi per item that has one
LocationsOf(list) ==
  IF list = << >> THEN << >>
  ELSE (IF Head(list).cfi # NoCfi THEN << Head(list).cfi >> ELSE << >>) \o LocationsOf(Tail(list))

\* process(pageList)
Process(list) == [pages |-> PagesOf(list), locations |-> LocationsOf(list)]

\* array[index], counted from 0
ArrayAt(array, index) ==
  IF index + 1 \in 1 .. Len(array) THEN array[index + 1] ELSE Undefined

\* Array.prototype.indexOf, counted from 0
IndexOf(array, x) ==
  IF \E i \in 1 .. Len(array) : array[i] = x
  THEN (CHOOSE i \in 1 .. Len(array) : array[i] = x /\ \A j \in 1 .. i - 1 : array[j] # x) - 1
  ELSE NotFound

\* indexOfSorted(cfi, locations, compare): the place of the cfi in the sorted
\* list, -1 when the list does not hold it
IndexOfSorted(cfi, locations) == IndexOf(locations, cfi)

\* locationOf(cfi, locations, compare): the place where the cfi would be
\* inserted into the sorted list
LocationOf(cfi, locations) ==
  Cardinality({ i \in 1 .. Len(locations) : locations[i] < cfi })

\* pageFromCfi(cfi)
PageFromCfi(pl, cfi) ==
  IF Len(pl.locations) = 0 THEN NotFound
  ELSE LET index == IndexOfSorted(cfi, pl.locations)
       IN  IF index # NotFound THEN ArrayAt(pl.pages, index)
           ELSE LET at == LocationOf(cfi, pl.locations)
                    pg == IF at - 1 >= 0 THEN ArrayAt(pl.pages, at - 1) ELSE ArrayAt(pl.pages, 0)
                IN  IF pg # Undefined THEN pg ELSE NotFound

\* cfiFromPage(pg)
CfiFromPage(pl, pg) ==
  LET index == IndexOf(pl.pages, pg)
  IN  IF index # NotFound THEN ArrayAt(pl.locations, index) ELSE NotFound

\* a page list about to be processed, a page and a cfi about to be looked up
InitPages ==
  /\ spine = NSections
  /\ Mounted
  /\ settings = [axis |-> "vertical", direction |-> "ltr", fullsize |-> FALSE,
                  rtlScrollType |-> "none", offset |-> 1]
  /\ writingMode = "horizontal"
  /\ layout = WindowLayout
  /\ isPaginated = FALSE
  /\ broken = {}
  /\ views = << >>
  /\ cTop = 0 /\ cLeft = 0
  /\ scrollTop = 0 /\ scrollLeft = 0
  /\ sigPending = FALSE /\ trimTimeout = FALSE
  /\ ignore = FALSE /\ scrolledPending = FALSE /\ afterScrolled = FALSE
  /\ q = << >> /\ run = Idle /\ inflight = {}
  /\ fillActive = FALSE /\ fillGrown = 0
  /\ last = NoOp /\ navHist = NoNav
  /\ probe \in { [done |-> FALSE, list |-> list, pg |-> pg, ask |-> c,
                    pl |-> Process(<< >>), cfi |-> NotFound, page |-> NotFound] :
                   list \in PageLists, pg \in 1 .. (MaxPages + 1), c \in 1 .. MaxPages }

\* process(pageList), then cfiFromPage(pg) and pageFromCfi(cfi)
PageLookup ==
  /\ ~probe.done
  /\ LET pl == Process(probe.list)
     IN  probe' = [probe EXCEPT !.done = TRUE, !.pl = pl,
                                !.cfi = CfiFromPage(pl, probe.pg),
                                !.page = PageFromCfi(pl, probe.ask)]
  /\ UNCHANGED << mount, wait, scrollTimeout, spine, settings, writingMode, layout, isPaginated, broken, views, cTop, cLeft,
                  scrollTop, scrollLeft, ignore, sigPending, scrolledPending, afterScrolled,
                  trimTimeout, q, run, inflight, fillActive, fillGrown, last, navHist >>

NextPages == PageLookup

SpecPages == InitPages /\ [][NextPages]_vars

\* C27: after process() of a page list with pairwise distinct page numbers,
\* for every item that carries a cfi, cfiFromPage(item.page) is item.cfi and
\* pageFromCfi(item.cfi) is item.page, whether or not other items lack a cfi;
\* cfiFromPage of a page the list does not hold is -1, and pageFromCfi is -1
\* when the list of locations is empty.
C27_Aligned ==
  probe.done =>
    /\ \A i \in 1 .. Len(probe.list) :
         probe.list[i].cfi # NoCfi =>
           /\ probe.pg = probe.list[i].page => probe.cfi = probe.list[i].cfi
           /\ probe.ask = probe.list[i].cfi => probe.page = probe.list[i].page
    /\ (\A i \in 1 .. Len(probe.list) : probe.list[i].page # probe.pg) => probe.cfi = NotFound
    /\ probe.pl.locations = << >> => probe.page = NotFound
====
